---------------------------- MODULE Spec2Model ----------------------------
(***************************************************************************)
(* A model of ComfyUI-PromptDrafter: the value-list parser with bracket    *)
(* protection, the placeholder substituter, the text combiner/cleaner and  *)
(* the sequential cursor of WildcardNode.                                  *)
(*                                                                         *)
(* A Python str is a sequence of one-character strings, so that every      *)
(* regular expression, split, strip and replace of the source is computed  *)
(* character by character, as the source computes it.                      *)
(***************************************************************************)
EXTENDS Integers, Sequences, FiniteSets, TLC

VARIABLES
    sequential_indices, \* WildcardNode._sequential_indices: key -> index, or Absent
    pc,                 \* position of the running specification / of each thread
    input,              \* the arguments of the call being made
    output,             \* what the call returned
    hist                \* history of the calls made (for the temporal claims)

vars == <<sequential_indices, pc, input, output, hist>>

(***************************************************************************)
(* Characters and Python's str primitives                                  *)
(***************************************************************************)

\* the characters str.strip() removes, as far as the inputs use them
Whitespace == {" ", "\n", "\t"}

\* the class [a-zA-Z0-9_] of WILDCARD_PATTERN
IdentChars ==
    {"a","b","c","d","e","f","g","h","i","j","k","l","m","n","o","p","q","r",
     "s","t","u","v","w","x","y","z",
     "A","B","C","D","E","F","G","H","I","J","K","L","M","N","O","P","Q","R",
     "S","T","U","V","W","X","Y","Z",
     "0","1","2","3","4","5","6","7","8","9","_"}

WILDCARD_PREFIX == <<"w","i","l","d","c","a","r","d","_">>

\* s[i..] starts with p
StartsWithAt(s, i, p) ==
    /\ i + Len(p) - 1 <= Len(s)
    /\ \A k \in 1..Len(p) : s[i + k - 1] = p[k]

StartsWith(s, p) == StartsWithAt(s, 1, p)

EndsWith(s, p) == Len(p) <= Len(s) /\ StartsWithAt(s, Len(s) - Len(p) + 1, p)

\* `p in s` for a non-empty p
Contains(s, p) == \E i \in 1..Len(s) : StartsWithAt(s, i, p)

HasChar(s, c) == \E i \in 1..Len(s) : s[i] = c

\* str.find(p, from): the least i >= from where p occurs, 0 if none
FindFrom(s, p, from) ==
    LET hits == {i \in from..Len(s) : StartsWithAt(s, i, p)}
    IN  IF hits = {} THEN 0 ELSE CHOOSE i \in hits : \A j \in hits : i <= j

\* str.lstrip(chars) / str.rstrip(chars) / str.strip(chars)
LStripSet(s, cs) ==
    LET keep == {i \in 1..Len(s) : s[i] \notin cs}
    IN  IF keep = {} THEN <<>>
        ELSE SubSeq(s, CHOOSE i \in keep : \A j \in keep : i <= j, Len(s))

RStripSet(s, cs) ==
    LET keep == {i \in 1..Len(s) : s[i] \notin cs}
    IN  IF keep = {} THEN <<>>
        ELSE SubSeq(s, 1, CHOOSE i \in keep : \A j \in keep : i >= j)

StripSet(s, cs) == RStripSet(LStripSet(s, cs), cs)

\* str.strip()
Strip(s) == StripSet(s, Whitespace)

\* str.replace(old, new) for a non-empty old: left to right, non-overlapping
RECURSIVE Replace(_, _, _)
Replace(s, old, new) ==
    LET i == FindFrom(s, old, 1)
    IN  IF i = 0 THEN s
        ELSE SubSeq(s, 1, i - 1) \o new
             \o Replace(SubSeq(s, i + Len(old), Len(s)), old, new)

\* str.split(sep) for a one-character sep: a sequence of strings
RECURSIVE Split(_, _)
Split(s, sep) ==
    LET i == FindFrom(s, <<sep>>, 1)
    IN  IF i = 0 THEN <<s>>
        ELSE <<SubSeq(s, 1, i - 1)>> \o Split(SubSeq(s, i + 1, Len(s)), sep)

\* sep.join(parts)
RECURSIVE Join(_, _)
Join(parts, sep) ==
    IF Len(parts) = 0 THEN <<>>
    ELSE IF Len(parts) = 1 THEN parts[1]
    ELSE parts[1] \o sep \o Join(Tail(parts), sep)

\* str(n) for n >= 0
Digit(d) == <<"0","1","2","3","4","5","6","7","8","9">>[d + 1]

RECURSIVE Str(_)
Str(n) == IF n < 10 THEN <<Digit(n)>> ELSE Str(n \div 10) \o <<Digit(n % 10)>>


(***************************************************************************)
(* WildcardParser (src/utils/wildcard_parser.py)                           *)
(***************************************************************************)

Min(S) == CHOOSE i \in S : \A j \in S : i <= j

\* a group that is opened and never closed runs to the end of the text
GroupEndAt_Unclosed(s, i, open, close) ==
    LET rest == {j \in (i + 1)..Len(s) : s[j] \in {open, close}}
    IN  IF i <= Len(s) /\ s[i] = open /\ rest = {} THEN Len(s)
        ELSE IF i <= Len(s) /\ s[i] = open /\ s[Min(rest)] = close
        THEN Min(rest) ELSE 0

\* a match of  open [^ open close]* close  starting at i: its last index, or 0
GroupEndAt(s, i, open, close) ==
    LET rest == {j \in (i + 1)..Len(s) : s[j] \in {open, close}}
    IN  IF i <= Len(s) /\ s[i] = open /\ rest # {} /\ s[Min(rest)] = close
        THEN Min(rest) ELSE 0

\* paren_pattern = \([^()]*\)  : re.search, the leftmost match <<start, end>>
paren_pattern(s) ==
    LET hits == {i \in 1..Len(s) : GroupEndAt(s, i, "(", ")") # 0}
    IN  IF hits = {} THEN <<0, 0>>
        ELSE <<Min(hits), GroupEndAt(s, Min(hits), "(", ")")>>

\* curly_pattern = \{(?!wildcard_)[^{}]*\}  : re.search, the leftmost match
curly_pattern(s) ==
    LET hits == {i \in 1..Len(s) :
                    /\ GroupEndAt(s, i, "{", "}") # 0
                    /\ ~StartsWithAt(s, i + 1, WILDCARD_PREFIX)}
    IN  IF hits = {} THEN <<0, 0>>
        ELSE <<Min(hits), GroupEndAt(s, Min(hits), "{", "}")>>

PAREN_TAG == <<"_","_","P","A","R","E","N","_">>
CURLY_TAG == <<"_","_","C","U","R","L","Y","_">>

\* a placeholder that is itself a bracket group
Placeholder_Group(tag, counter) == IF tag = PAREN_TAG THEN <<"(", ")">> ELSE <<"{", "}">>

\* f"__PAREN_{counter}__" / f"__CURLY_{counter}__"
Placeholder(tag, counter) == tag \o Str(counter) \o <<"_","_">>

\* the first while loop of _protect_brackets; st = [result, replacements, counter],
\* replacements an insertion-ordered dict: a sequence of <<placeholder, original>>
RECURSIVE ProtectParens(_)
ProtectParens(st) ==
    LET m == paren_pattern(st.result)
    IN  IF m[1] = 0 THEN st
        ELSE ProtectParens(
               [result |-> SubSeq(st.result, 1, m[1] - 1)
                           \o Placeholder(PAREN_TAG, st.counter)
                           \o SubSeq(st.result, m[2] + 1, Len(st.result)),
                replacements |-> Append(st.replacements,
                                   <<Placeholder(PAREN_TAG, st.counter),
                                     SubSeq(st.result, m[1], m[2])>>),
                counter |-> st.counter + 1])

\* the second while loop of _protect_brackets
RECURSIVE ProtectCurlies(_)
ProtectCurlies(st) ==
    LET m == curly_pattern(st.result)
    IN  IF m[1] = 0 THEN st
        ELSE ProtectCurlies(
               [result |-> SubSeq(st.result, 1, m[1] - 1)
                           \o Placeholder(CURLY_TAG, st.counter)
                           \o SubSeq(st.result, m[2] + 1, Len(st.result)),
                replacements |-> Append(st.replacements,
                                   <<Placeholder(CURLY_TAG, st.counter),
                                     SubSeq(st.result, m[1], m[2])>>),
                counter |-> st.counter + 1])

\* one iteration of either loop on the match m: the group is recorded and
\* replaced by its placeholder, the counter advances
LoopBody(st, m, tag) ==
    [result |-> SubSeq(st.result, 1, m[1] - 1)
                \o Placeholder(tag, st.counter)
                \o SubSeq(st.result, m[2] + 1, Len(st.result)),
     replacements |-> Append(st.replacements,
                             <<Placeholder(tag, st.counter),
                               SubSeq(st.result, m[1], m[2])>>),
     counter |-> st.counter + 1]

\* WildcardParser._protect_brackets: [result, replacements, counter]
protect_brackets(text) ==
    ProtectCurlies(ProtectParens(
        [result |-> text, replacements |-> <<>>, counter |-> 0]))

\* WildcardParser._restore_brackets: the replacements in insertion order
RECURSIVE restore_brackets(_, _)
restore_brackets(text, replacements) ==
    IF Len(replacements) = 0 THEN text
    ELSE restore_brackets(Replace(text, replacements[1][1], replacements[1][2]),
                          Tail(replacements))

\* [v.strip() for v in pieces if v.strip()]
RECURSIVE StripNonBlank(_)
StripNonBlank(pieces) ==
    IF Len(pieces) = 0 THEN <<>>
    ELSE (IF Strip(pieces[1]) # <<>> THEN <<Strip(pieces[1])>> ELSE <<>>)
         \o StripNonBlank(Tail(pieces))

\* the two tests in the other order: a line is cut at its commas first
LineValues_CommaFirst(rawline) ==
    LET line == Strip(rawline)
    IN  IF line = <<>> THEN <<>>
        ELSE IF HasChar(line, ",") THEN StripNonBlank(Split(line, ","))
        ELSE IF HasChar(line, "|") THEN StripNonBlank(Split(line, "|"))
        ELSE <<line>>

\* the body of `for line in lines` of parse_value_list
LineValues(rawline) ==
    LET line == Strip(rawline)
    IN  IF line = <<>> THEN <<>>
        ELSE IF HasChar(line, "|") THEN StripNonBlank(Split(line, "|"))
        ELSE IF HasChar(line, ",") THEN StripNonBlank(Split(line, ","))
        ELSE <<line>>

RECURSIVE LinesValues(_)
LinesValues(lines) ==
    IF Len(lines) = 0 THEN <<>>
    ELSE LineValues(lines[1]) \o LinesValues(Tail(lines))

\* the delimiter selection of parse_value_list, on the protected text
SplitValues(protected_text) ==
    IF HasChar(protected_text, "\n") THEN LinesValues(Split(protected_text, "\n"))
    ELSE IF HasChar(protected_text, "|")
         THEN StripNonBlank(Split(protected_text, "|"))
    ELSE IF HasChar(protected_text, ",")
         THEN StripNonBlank(Split(protected_text, ","))
    ELSE IF Strip(protected_text) # <<>> THEN <<Strip(protected_text)>> ELSE <<>>

\* the restoring loop of parse_value_list
RECURSIVE RestoreValues(_, _)
RestoreValues(values, replacements) ==
    IF Len(values) = 0 THEN <<>>
    ELSE LET restored == restore_brackets(values[1], replacements)
         IN  (IF restored # <<>> THEN <<restored>> ELSE <<>>)
             \o RestoreValues(Tail(values), replacements)

\* WildcardParser.parse_value_list
parse_value_list(text) ==
    IF text = <<>> \/ Strip(text) = <<>> THEN <<>>
    ELSE LET p == protect_brackets(text)
         IN  RestoreValues(SplitValues(p.result), p.replacements)


\* the end of the run [a-zA-Z0-9_]* that starts at j: the first index after it
IdentRunEnd(s, j) ==
    LET stops == {k \in j..Len(s) : s[k] \notin IdentChars}
    IN  IF stops = {} THEN Len(s) + 1 ELSE Min(stops)

\* a match of WILDCARD_PATTERN = \{wildcard_([a-zA-Z0-9_]+)\} starting at i:
\* the index of its closing brace, or 0
WildcardEndAt(s, i) ==
    LET j == i + 1 + Len(WILDCARD_PREFIX)
        k == IdentRunEnd(s, j)
    IN  IF /\ i <= Len(s) /\ s[i] = "{"
           /\ StartsWithAt(s, i + 1, WILDCARD_PREFIX)
           /\ k > j /\ k <= Len(s) /\ s[k] = "}"
        THEN k ELSE 0

\* WILDCARD_PATTERN.findall(text), each group prefixed: f"wildcard_{name}"
RECURSIVE FindAllFullNames(_, _)
FindAllFullNames(s, from) ==
    LET hits == {i \in from..Len(s) : WildcardEndAt(s, i) # 0}
    IN  IF hits = {} THEN <<>>
        ELSE LET i == Min(hits)
                 k == WildcardEndAt(s, i)
             IN  <<SubSeq(s, i + 1, k - 1)>> \o FindAllFullNames(s, k + 1)

\* the `seen` test left out: every match is kept
Unique_KeepAll(names, seen) == names

\* the `seen` loop of extract_wildcard_names: first occurrences, in order
RECURSIVE Unique(_, _)
Unique(names, seen) ==
    IF Len(names) = 0 THEN <<>>
    ELSE IF names[1] \in seen THEN Unique(Tail(names), seen)
    ELSE <<names[1]>> \o Unique(Tail(names), seen \cup {names[1]})

\* WildcardParser.extract_wildcard_names
extract_wildcard_names(text) == Unique(FindAllFullNames(text, 1), {})

\* the first loop of replace_wildcards; wildcard_values an insertion-ordered
\* dict of strings: a sequence of <<name, value>>
RECURSIVE ReplaceGiven(_, _)
ReplaceGiven(result, wildcard_values) ==
    IF Len(wildcard_values) = 0 THEN result
    ELSE LET name == wildcard_values[1][1]
             value == wildcard_values[1][2]
             pattern == IF StartsWith(name, WILDCARD_PREFIX)
                        THEN <<"{">> \o name \o <<"}">>
                        ELSE <<"{">> \o WILDCARD_PREFIX \o name \o <<"}">>
         IN  ReplaceGiven(Replace(result, pattern, value), Tail(wildcard_values))

\* the second loop of replace_wildcards, over remaining_wildcards
RECURSIVE ReplaceRemaining(_, _)
ReplaceRemaining(result, remaining_wildcards) ==
    IF Len(remaining_wildcards) = 0 THEN result
    ELSE ReplaceRemaining(
           Replace(result, <<"{">> \o remaining_wildcards[1] \o <<"}">>, <<>>),
           Tail(remaining_wildcards))

\* WildcardParser.replace_wildcards
replace_wildcards(text, wildcard_values) ==
    LET result == ReplaceGiven(text, wildcard_values)
    IN  ReplaceRemaining(result, extract_wildcard_names(result))

(***************************************************************************)
(* TextProcessor (src/utils/text_processor.py)                             *)
(***************************************************************************)

\* TextProcessor._strip_commas
strip_commas(text) ==
    IF text = <<>> THEN <<>>
    ELSE Strip(StripSet(Strip(text), {","}))

SEPARATOR == <<",", " ">>

\* TextProcessor.combine_prompt, with the default separator
combine_prompt(text, prefix, suffix) ==
    LET part(x) == IF x # <<>> /\ Strip(x) # <<>> THEN <<strip_commas(x)>> ELSE <<>>
    IN  Join(part(prefix) \o part(text) \o part(suffix), SEPARATOR)

\* TextProcessor.process_prompt
process_prompt(text, prefix, suffix, wildcard_values) ==
    LET combined == combine_prompt(text, prefix, suffix)
    IN  IF Len(wildcard_values) # 0
        THEN replace_wildcards(combined, wildcard_values)
        ELSE combined

\* re.sub(r' +', ' ', text)
RECURSIVE CollapseSpaces(_)
CollapseSpaces(s) ==
    IF Len(s) = 0 THEN <<>>
    ELSE IF s[1] = " "
         THEN <<" ">> \o CollapseSpaces(LStripSet(s, {" "}))
         ELSE <<s[1]>> \o CollapseSpaces(Tail(s))

\* re.sub(r'\s*,\s*', ', ', text)
RECURSIVE CommaSpacing(_)
CommaSpacing(s) ==
    IF Len(s) = 0 THEN <<>>
    ELSE LET t == LStripSet(s, Whitespace)
         IN  IF Len(t) > 0 /\ t[1] = ","
             THEN <<",", " ">> \o CommaSpacing(LStripSet(Tail(t), Whitespace))
             ELSE <<s[1]>> \o CommaSpacing(Tail(s))

\* TextProcessor.clean_prompt
clean_prompt(text) ==
    IF text = <<>> THEN <<>>
    ELSE LET t == Strip(CommaSpacing(CollapseSpaces(text)))
         IN  IF EndsWith(t, <<",">>) THEN Strip(SubSeq(t, 1, Len(t) - 1)) ELSE t

\* the characters of names in code point order:
\* space (32) < . (46) < 0-9 (48-57) < A-Z (65-90) < _ (95) < a-z (97-122)
OrdChars ==
    <<" ", ".",
      "0","1","2","3","4","5","6","7","8","9",
      "A","B","C","D","E","F","G","H","I","J","K","L","M",
      "N","O","P","Q","R","S","T","U","V","W","X","Y","Z",
      "_",
      "a","b","c","d","e","f","g","h","i","j","k","l","m",
      "n","o","p","q","r","s","t","u","v","w","x","y","z">>

Ord(c) == CHOOSE i \in 1..Len(OrdChars) : OrdChars[i] = c

\* str.__lt__: the order sorted() puts names in
RECURSIVE StrLess(_, _)
StrLess(a, b) ==
    IF Len(b) = 0 THEN FALSE
    ELSE IF Len(a) = 0 THEN TRUE
    ELSE IF a[1] = b[1] THEN StrLess(Tail(a), Tail(b))
    ELSE Ord(a[1]) < Ord(b[1])

\* set(names)
ToSet(names) == {names[i] : i \in 1..Len(names)}

\* sorted(list(S))
RECURSIVE Sorted(_)
Sorted(S) ==
    IF S = {} THEN <<>>
    ELSE LET least == CHOOSE x \in S : \A y \in S \ {x} : StrLess(x, y)
         IN  <<least>> \o Sorted(S \ {least})

\* the names of both texts in the order met, sorted() left out
get_combined_wildcards_Unsorted(positive_text, negative_text) ==
    Unique(extract_wildcard_names(positive_text)
           \o extract_wildcard_names(negative_text), {})

\* TextProcessor.get_combined_wildcards
get_combined_wildcards(positive_text, negative_text) ==
    Sorted(ToSet(extract_wildcard_names(positive_text))
           \cup ToSet(extract_wildcard_names(negative_text)))

(***************************************************************************)
(* SinglePromptDrafter / DualPromptDrafter                                 *)
(***************************************************************************)

\* the kwargs loop of process: the entries whose key starts with "wildcard_"
RECURSIVE CollectWildcards(_)
CollectWildcards(kwargs) ==
    IF Len(kwargs) = 0 THEN <<>>
    ELSE (IF StartsWith(kwargs[1][1], WILDCARD_PREFIX) THEN <<kwargs[1]>> ELSE <<>>)
         \o CollectWildcards(Tail(kwargs))

\* SinglePromptDrafter.process
single_process(prompt, prefix, suffix, kwargs) ==
    clean_prompt(process_prompt(prompt, prefix, suffix, CollectWildcards(kwargs)))

\* DualPromptDrafter.process: <<processed_positive, processed_negative>>
dual_process(positive_prompt, negative_prompt, positive_prefix, positive_suffix, negative_prefix, negative_suffix, kwargs) ==
    <<clean_prompt(process_prompt(positive_prompt, positive_prefix,
                                  positive_suffix, CollectWildcards(kwargs))),
      clean_prompt(process_prompt(negative_prompt, negative_prefix,
                                  negative_suffix, CollectWildcards(kwargs)))>>


(***************************************************************************)
(* WildcardNode (src/nodes/wildcard_node.py)                               *)
(***************************************************************************)

OUTPUT_MODES == {"random", "sequential", "fixed", "dynamic_prompts", "list (csv)"}

\* node_key = f"wildcard_{unique_id}"
NodeKey(unique_id) == WILDCARD_PREFIX \o unique_id

\* the one-value case left out: a single value is wrapped in braces too
format_as_dynamic_prompts_Braced(values) ==
    IF Len(values) = 0 THEN <<>>
    ELSE <<"{">> \o Join(values, <<"|">>) \o <<"}">>

\* WildcardParser.format_as_dynamic_prompts
format_as_dynamic_prompts(values) ==
    IF Len(values) = 0 THEN <<>>
    ELSE IF Len(values) = 1 THEN values[1]
    ELSE <<"{">> \o Join(values, <<"|">>) \o <<"}">>

\* the index wrapped around the list instead of clamped to its ends
ClampIndex_Wrap(fixed_index, n) == fixed_index % n

\* max(0, min(fixed_index, len(values) - 1))
ClampIndex(fixed_index, n) ==
    LET m == IF fixed_index < n - 1 THEN fixed_index ELSE n - 1
    IN  IF m > 0 THEN m ELSE 0

\* dict assignment  d[k] = v
DictSet(d, k, v) == [x \in DOMAIN d \cup {k} |-> IF x = k THEN v ELSE d[x]]

\* the cursor a call would read: 0 for an unseen key
CursorOf(indices, key) == IF key \in DOMAIN indices THEN indices[key] ELSE 0

\* the increment left out: the cursor stays where it is
NextIndex_Stuck(index, n) == index % n

\* the index the sequential branch stores for the next execution
NextIndex(index, n) == (index + 1) % n

\* the stored cursor clamped to the list instead of taken modulo its length
process_sequential_Clamp(indices, node_key, values) ==
    LET present == IF node_key \in DOMAIN indices THEN indices
                   ELSE DictSet(indices, node_key, 0)
        index == IF present[node_key] < Len(values) THEN present[node_key]
                 ELSE Len(values) - 1
    IN  [result |-> values[index + 1],
         indices |-> DictSet(present, node_key, NextIndex(index, Len(values)))]

\* the 'sequential' branch of WildcardNode.process, run without interruption:
\* the value returned and the cursor map left behind
process_sequential(indices, node_key, values) ==
    LET present == IF node_key \in DOMAIN indices THEN indices
                   ELSE DictSet(indices, node_key, 0)
        index == present[node_key] % Len(values)
    IN  [result |-> values[index + 1],
         indices |-> DictSet(present, node_key, NextIndex(index, Len(values)))]

\* the cursor of the node initialised before the empty list is returned from
process_InitFirst(indices, wildcard_values, output_mode, fixed_index, unique_id) ==
    LET values == parse_value_list(wildcard_values)
        key == NodeKey(unique_id)
        present == IF output_mode = "sequential" /\ key \notin DOMAIN indices
                   THEN DictSet(indices, key, 0) ELSE indices
    IN  IF Len(values) = 0 THEN {[result |-> <<>>, indices |-> present]}
        ELSE IF output_mode = "list (csv)"
             THEN {[result |-> Join(values, <<",", " ">>), indices |-> indices]}
        ELSE IF output_mode = "dynamic_prompts"
             THEN {[result |-> format_as_dynamic_prompts(values), indices |-> indices]}
        ELSE IF output_mode = "fixed"
             THEN {[result |-> values[ClampIndex(fixed_index, Len(values)) + 1],
                    indices |-> indices]}
        ELSE IF output_mode = "sequential"
             THEN {process_sequential(indices, key, values)}
        ELSE {[result |-> values[i], indices |-> indices] : i \in 1..Len(values)}

\* WildcardNode.process: the set of outcomes [result, indices] of one call
\* (random.choice may return any of the values)
process(indices, wildcard_values, output_mode, fixed_index, unique_id) ==
    LET values == parse_value_list(wildcard_values)
    IN  IF Len(values) = 0 THEN {[result |-> <<>>, indices |-> indices]}
        ELSE IF output_mode = "list (csv)"
             THEN {[result |-> Join(values, <<",", " ">>), indices |-> indices]}
        ELSE IF output_mode = "dynamic_prompts"
             THEN {[result |-> format_as_dynamic_prompts(values), indices |-> indices]}
        ELSE IF output_mode = "fixed"
             THEN {[result |-> values[ClampIndex(fixed_index, Len(values)) + 1],
                    indices |-> indices]}
        ELSE IF output_mode = "sequential"
             THEN {process_sequential(indices, NodeKey(unique_id), values)}
        ELSE {[result |-> values[i], indices |-> indices] : i \in 1..Len(values)}

\* a reset of one key that clears the whole map
reset_sequential_index_Clear(indices, unique_id) == [x \in {} |-> 0]

\* a reset that leaves the cursor where it is
reset_sequential_index_Noop(indices, unique_id) == indices

\* WildcardNode.reset_sequential_index
reset_sequential_index(indices, unique_id) ==
    IF NodeKey(unique_id) \in DOMAIN indices
    THEN DictSet(indices, NodeKey(unique_id), 0)
    ELSE indices

\* a reset of all keys that keeps the map
reset_all_sequential_indices_Keep(indices) == indices

\* WildcardNode.reset_all_sequential_indices: dict.clear()
reset_all_sequential_indices(indices) == [x \in {} |-> 0]


(***************************************************************************)
(* FileManager, WildcardNodeAPI and the wildcard routes. The store is      *)
(* [exists, files]: whether the save directory exists and the files in it, *)
(* file name (without .json) -> [name, raw_text, values]. fault = "io": *)
(* the file-system call of the operation raises an exception.              *)
(***************************************************************************)

INVALID_CHARS == {"<", ">", ":", "\"", "/", "\\", "|", "?", "*"}

\* FileManager._sanitize_filename
sanitize_filename(name) ==
    LET replaced == [i \in 1..Len(name) |->
                        IF name[i] \in INVALID_CHARS THEN "_" ELSE name[i]]
        result == StripSet(replaced, {" ", "."})
    IN  IF result = <<>> THEN <<"u","n","n","a","m","e","d">> ELSE result

None == [none |-> TRUE]

\* FileManager.save_wildcard: [ok, store]; open() raises under fault "io",
\* after ensure_directory has made the directory
FileManager_save_wildcard(store, name, raw_text, values, fault) ==
    IF fault = "io"
    THEN [ok |-> FALSE, store |-> [store EXCEPT !.exists = TRUE]]
    ELSE [ok |-> TRUE,
          store |-> [exists |-> TRUE,
                     files |-> DictSet(store.files, sanitize_filename(name),
                                       [name |-> name, raw_text |-> raw_text,
                                        values |-> values])]]

\* FileManager.load_wildcard: the saved data or None
FileManager_load_wildcard(store, name, fault) ==
    LET filename == sanitize_filename(name)
    IN  IF ~store.exists \/ filename \notin DOMAIN store.files THEN None
        ELSE IF fault = "io" THEN None
        ELSE store.files[filename]

\* sorted(names), names one per file
RECURSIVE SortedNames(_, _)
SortedNames(F, nameOf) ==
    IF F = {} THEN <<>>
    ELSE LET f == CHOOSE x \in F : \A y \in F : ~StrLess(nameOf[y], nameOf[x])
         IN  <<nameOf[f]>> \o SortedNames(F \ {f}, nameOf)

\* FileManager._list_saves: os.listdir raises under fault "io"; under fault
\* "file" reading a file raises and its file name stands in for its name
list_saves(store, fault) ==
    IF ~store.exists THEN <<>>
    ELSE IF fault = "io" THEN <<>>
    ELSE SortedNames(DOMAIN store.files,
                     [f \in DOMAIN store.files |->
                         IF fault = "file" THEN f ELSE store.files[f].name])

\* FileManager._delete_save: [ok, store]; os.remove raises under fault "io"
delete_save(store, name, fault) ==
    LET filename == sanitize_filename(name)
    IN  IF store.exists /\ filename \in DOMAIN store.files
        THEN IF fault = "io" THEN [ok |-> FALSE, store |-> store]
             ELSE [ok |-> TRUE,
                   store |-> [store EXCEPT !.files =
                                [f \in DOMAIN store.files \ {filename} |->
                                    store.files[f]]]]
        ELSE [ok |-> FALSE, store |-> store]

\* WildcardNodeAPI.save_wildcard: [response, store]
WildcardNodeAPI_save_wildcard(store, name, raw_text, fault) ==
    LET saved == FileManager_save_wildcard(store, name, raw_text,
                                           parse_value_list(raw_text), fault)
    IN  [response |-> [success |-> saved.ok,
                       message |-> IF saved.ok THEN <<"Saved wildcard", name>>
                                   ELSE <<"Failed to save wildcard", name>>],
         store |-> saved.store]

\* WildcardNodeAPI.load_wildcard
WildcardNodeAPI_load_wildcard(store, name, fault) ==
    LET data == FileManager_load_wildcard(store, name, fault)
    IN  IF data # None THEN [success |-> TRUE, data |-> data]
        ELSE [success |-> FALSE, message |-> <<"Failed to load wildcard", name>>]

\* WildcardNodeAPI.list_wildcards
WildcardNodeAPI_list_wildcards(store, fault) ==
    [success |-> TRUE, wildcards |-> list_saves(store, fault)]

\* WildcardNodeAPI.delete_wildcard: [response, store]
WildcardNodeAPI_delete_wildcard(store, name, fault) ==
    LET deleted == delete_save(store, name, fault)
    IN  [response |-> [success |-> deleted.ok,
                       message |-> IF deleted.ok THEN <<"Deleted wildcard", name>>
                                   ELSE <<"Failed to delete wildcard", name>>],
         store |-> deleted.store]

\* the answer of a route to a request without a name
NameRequired == [success |-> FALSE, message |-> <<"Name is required">>]

(***************************************************************************)
(* Bounded inputs                                                          *)
(***************************************************************************)

\* every concatenation of at most k of the fragments F
RECURSIVE Concats(_, _)
Concats(F, k) ==
    IF k = 0 THEN {<<>>}
    ELSE LET shorter == Concats(F, k - 1)
         IN  shorter \cup {p \o f : p \in shorter, f \in F}

EmptyDict == [x \in {} |-> 0]

(***************************************************************************)
(* SpecSeq: one host thread calling WildcardNode.process and the resets    *)
(***************************************************************************)

MaxCalls == 4

UniqueIds == {<<"1">>, <<"2">>}

SeqTexts == {<<"x", ",", "y", ",", "z">>, <<"x", "|", "y">>, <<" ">>}

FixedIndices == {-1, 1, 7}

\* hist[uid] = [list, count]: the calls in 'sequential' mode made for uid since
\* its cursor was unseen or reset, all with the same parsed list `list`;
\* count = 0: none yet; count = -1: the lists differed
Fresh == [list |-> <<>>, count |-> 0]

SeqHist(h, values) ==
    IF h.count = 0 THEN [list |-> values, count |-> 1]
    ELSE IF h.count > 0 /\ h.list = values THEN [h EXCEPT !.count = h.count + 1]
    ELSE [list |-> <<>>, count |-> -1]

SeqInit ==
    /\ sequential_indices = EmptyDict
    /\ pc = "ready"
    /\ input = [op |-> "none"]
    /\ output = <<>>
    /\ hist = [u \in UniqueIds |-> Fresh]

Process(text, mode, fixed_index, uid) ==
    LET values == parse_value_list(text)
        counted == mode = "sequential" /\ Len(values) > 0
    IN  /\ pc = "ready"
        /\ counted => hist[uid].count < MaxCalls
        /\ \E o \in process(sequential_indices, text, mode, fixed_index, uid) :
              /\ sequential_indices' = o.indices
              /\ output' = o.result
        /\ input' = [op |-> "process", text |-> text, mode |-> mode,
                     fixed_index |-> fixed_index, uid |-> uid,
                     before |-> IF counted
                                THEN CursorOf(sequential_indices, NodeKey(uid))
                                ELSE 0]
        /\ hist' = IF counted
                   THEN [hist EXCEPT ![uid] = SeqHist(hist[uid], values)]
                   ELSE hist
        /\ UNCHANGED pc

ResetSequential(uid) ==
    /\ pc = "ready"
    /\ sequential_indices' = reset_sequential_index(sequential_indices, uid)
    /\ input' = [op |-> "reset", uid |-> uid,
                 before |-> CursorOf(sequential_indices, NodeKey(uid))]
    /\ output' = <<>>
    /\ hist' = [hist EXCEPT ![uid] = Fresh]
    /\ UNCHANGED pc

ResetAll ==
    /\ pc = "ready"
    /\ sequential_indices' = reset_all_sequential_indices(sequential_indices)
    /\ input' = [op |-> "reset_all", before |-> DOMAIN sequential_indices]
    /\ output' = <<>>
    /\ hist' = [u \in UniqueIds |-> Fresh]
    /\ UNCHANGED pc

SeqNext ==
    \/ \E text \in SeqTexts, mode \in OUTPUT_MODES \ {"fixed"}, uid \in UniqueIds :
          Process(text, mode, 0, uid)
    \/ \E text \in SeqTexts, f \in FixedIndices, uid \in UniqueIds :
          Process(text, "fixed", f, uid)
    \/ \E uid \in UniqueIds : ResetSequential(uid)
    \/ ResetAll

SpecSeq == SeqInit /\ [][SeqNext]_vars

\* C1: with the cursor of K unseen or just reset, the i-th consecutive call in
\* 'sequential' mode over the same non-empty list returns values[(i-1) mod n].
C1_RoundRobin ==
    (/\ input.op = "process" /\ input.mode = "sequential"
     /\ hist[input.uid].count > 0
     /\ parse_value_list(input.text) = hist[input.uid].list)
    => LET h == hist[input.uid]
       IN  output = h.list[((h.count - 1) % Len(h.list)) + 1]

\* the fourth call over x, y, z has wrapped around to x
C1_Witness ==
    /\ input.op = "process" /\ input.mode = "sequential"
    /\ hist[input.uid].count = 4
    /\ hist[input.uid].list = <<(<<"x">>), (<<"y">>), (<<"z">>)>>
    /\ output = <<"x">>

\* C11: once reset_sequential_index(K) has completed, and until the next
\* selection in 'sequential' mode for K, the cursor of K is 0 and a selection
\* in 'sequential' mode for K over any non-empty list returns values[0],
\* whether K had been used before the reset or had never been seen.
C11_ResetToZero ==
    \A uid \in UniqueIds :
       hist[uid].count = 0 =>
          /\ CursorOf(sequential_indices, NodeKey(uid)) = 0
          /\ \A text \in SeqTexts :
                LET values == parse_value_list(text)
                IN  Len(values) > 0 =>
                       \A o \in process(sequential_indices, text, "sequential", 0, uid) :
                          o.result = values[1]

\* a reset of a key whose cursor had advanced
C11_Witness ==
    /\ input.op = "reset" /\ input.before > 0
    /\ NodeKey(input.uid) \in DOMAIN sequential_indices
    /\ sequential_indices[NodeKey(input.uid)] = 0

\* C12: in 'fixed' mode over a non-empty list of n values the call returns the
\* first value for a negative fixed_index, the last value for fixed_index >= n
\* and values[fixed_index] in between.
C12_FixedClamps ==
    (input.op = "process" /\ input.mode = "fixed"
     /\ Len(parse_value_list(input.text)) > 0)
    => LET values == parse_value_list(input.text)
           n == Len(values)
           f == input.fixed_index
       IN  /\ f < 0 => output = values[1]
           /\ f >= n => output = values[n]
           /\ (0 <= f /\ f < n) => output = values[f + 1]

\* index 7 over x, y, z is clamped to the last value
C12_Witness ==
    /\ input.op = "process" /\ input.mode = "fixed" /\ input.fixed_index = 7
    /\ parse_value_list(input.text) = <<(<<"x">>), (<<"y">>), (<<"z">>)>>
    /\ output = <<"z">>

\* C14: a call whose wildcard_values parses to the empty list returns the
\* empty string in every mode and leaves the cursor map as it was.
C14_EmptyShortCircuit ==
    [][(input'.op = "process" /\ parse_value_list(input'.text) = <<>>)
       => (output' = <<>> /\ sequential_indices' = sequential_indices)]_vars

\* a 'sequential' call over a blank text has created no cursor
C14_Witness ==
    /\ input.op = "process" /\ input.mode = "sequential"
    /\ parse_value_list(input.text) = <<>>
    /\ output = <<>>
    /\ NodeKey(input.uid) \notin DOMAIN sequential_indices

\* C21: a call in 'sequential' mode over a non-empty list of n values, whatever
\* the lengths of the lists of the calls before it, returns values[c mod n] for
\* the cursor c stored before the call (0 for an unseen key) and stores
\* ((c mod n) + 1) mod n; a stored cursor >= n is no error.
C21_VaryingLength ==
    [][(/\ input'.op = "process" /\ input'.mode = "sequential"
        /\ Len(parse_value_list(input'.text)) > 0)
       => LET values == parse_value_list(input'.text)
              n == Len(values)
              key == NodeKey(input'.uid)
              c == CursorOf(sequential_indices, key)
          IN  /\ output' = values[(c % n) + 1]
              /\ key \in DOMAIN sequential_indices'
              /\ sequential_indices'[key] = ((c % n) + 1) % n]_vars

\* the cursor stood at 2 after x, y of x,y,z; the list x|y has two values:
\* the call returns x and stores 1
C21_Witness ==
    /\ input.op = "process" /\ input.mode = "sequential"
    /\ input.before = 2
    /\ parse_value_list(input.text) = <<(<<"x">>), (<<"y">>)>>
    /\ output = <<"x">>
    /\ sequential_indices[NodeKey(input.uid)] = 1

\* the entry of a key in the cursor map: <<cursor>>, or <<>> for no entry
EntryOf(indices, key) == IF key \in DOMAIN indices THEN <<indices[key]>> ELSE <<>>

\* C22: a selection in 'sequential' mode or a reset for K leaves the entry of
\* every other key as it was, and a call in any other mode leaves the whole
\* cursor map as it was, however the calls for different keys interleave.
C22_CursorFrame ==
    [][/\ ((input'.op = "process" /\ input'.mode = "sequential")
           \/ input'.op = "reset")
          => \A uid \in UniqueIds \ {input'.uid} :
                EntryOf(sequential_indices', NodeKey(uid))
                   = EntryOf(sequential_indices, NodeKey(uid))
       /\ (input'.op = "process" /\ input'.mode # "sequential")
          => sequential_indices' = sequential_indices]_vars

\* a reset for one key while the cursor of the other key stands at 2
C22_Witness ==
    /\ input.op = "reset" /\ input.before > 0
    /\ \E uid \in UniqueIds \ {input.uid} :
          /\ NodeKey(uid) \in DOMAIN sequential_indices
          /\ sequential_indices[NodeKey(uid)] = 2

\* C23: after reset_all_sequential_indices the cursor map is empty, and for
\* every key a selection in 'sequential' mode over any non-empty list returns
\* values[0].
C23_ResetAllClears ==
    input.op = "reset_all"
    => /\ DOMAIN sequential_indices = {}
       /\ \A uid \in UniqueIds, text \in SeqTexts :
             LET values == parse_value_list(text)
             IN  Len(values) > 0 =>
                    \A o \in process(sequential_indices, text, "sequential", 0, uid) :
                       o.result = values[1]

\* a reset of all keys when both keys had a cursor
C23_Witness ==
    /\ input.op = "reset_all"
    /\ input.before = {NodeKey(uid) : uid \in UniqueIds}
    /\ DOMAIN sequential_indices = {}


(***************************************************************************)
(* SpecConc: two host threads in the 'sequential' branch of process for    *)
(* the same node key, interleaved statement by statement (no lock is       *)
(* taken around lines 135-142)                                             *)
(***************************************************************************)

MaxWarm == 2

Threads == {1, 2}

ConcKey == NodeKey(<<"1">>)

ConcTexts == {<<"x", ",", "y", ",", "z">>, <<"x", "|", "y">>}

ConcInit ==
    /\ sequential_indices = EmptyDict
    /\ pc = [t \in Threads |-> "idle"]
    /\ input \in [text : ConcTexts]
    /\ output = [t \in Threads |-> <<>>]
    /\ hist = [warm |-> 0, start |-> -1, index |-> [t \in Threads |-> 0]]

\* an earlier, uninterrupted execution of the node, before the two threads start
Warmup(text) ==
    /\ \A t \in Threads : pc[t] = "idle"
    /\ hist.warm < MaxWarm
    /\ sequential_indices' =
          process_sequential(sequential_indices, ConcKey, parse_value_list(text)).indices
    /\ hist' = [hist EXCEPT !.warm = hist.warm + 1]
    /\ UNCHANGED <<pc, input, output>>

\* lines 110-133: values parsed, not empty, the mode is 'sequential'
Enter(t) ==
    /\ pc[t] = "idle"
    /\ Len(parse_value_list(input.text)) > 0
    /\ pc' = [pc EXCEPT ![t] = "check"]
    /\ hist' = IF hist.start = -1
               THEN [hist EXCEPT !.start = CursorOf(sequential_indices, ConcKey)]
               ELSE hist
    /\ UNCHANGED <<sequential_indices, input, output>>

\* line 135: if node_key not in WildcardNode._sequential_indices
CheckKey(t) ==
    /\ pc[t] = "check"
    /\ pc' = [pc EXCEPT ![t] = IF ConcKey \in DOMAIN sequential_indices
                               THEN "read" ELSE "init"]
    /\ UNCHANGED <<sequential_indices, input, output, hist>>

\* line 136: WildcardNode._sequential_indices[node_key] = 0
InitKey(t) ==
    /\ pc[t] = "init"
    /\ sequential_indices' = DictSet(sequential_indices, ConcKey, 0)
    /\ pc' = [pc EXCEPT ![t] = "read"]
    /\ UNCHANGED <<input, output, hist>>

\* lines 138-139: index = _sequential_indices[node_key] % len(values)
ReadIndex(t) ==
    /\ pc[t] = "read"
    /\ hist' = [hist EXCEPT !.index[t] =
                  sequential_indices[ConcKey] % Len(parse_value_list(input.text))]
    /\ pc' = [pc EXCEPT ![t] = "write"]
    /\ UNCHANGED <<sequential_indices, input, output>>

\* lines 142-144: _sequential_indices[node_key] = (index + 1) % len(values); return
WriteIndex(t) ==
    LET values == parse_value_list(input.text)
    IN  /\ pc[t] = "write"
        /\ sequential_indices' = DictSet(sequential_indices, ConcKey,
                                         NextIndex(hist.index[t], Len(values)))
        /\ output' = [output EXCEPT ![t] = values[hist.index[t] + 1]]
        /\ pc' = [pc EXCEPT ![t] = "done"]
        /\ UNCHANGED <<input, hist>>

ConcNext ==
    \/ \E text \in ConcTexts : Warmup(text)
    \/ \E t \in Threads :
          \/ Enter(t)
          \/ CheckKey(t)
          \/ InitKey(t)
          \/ ReadIndex(t)
          \/ WriteIndex(t)

SpecConc == ConcInit /\ [][ConcNext]_vars

\* C2: two concurrent selections for one key never both observe the same
\* pre-increment index: they return consecutive elements, and the cursor has
\* advanced by two positions modulo the length of the list.
C2_NoSharedIndex ==
    (\A t \in Threads : pc[t] = "done")
    => LET values == parse_value_list(input.text)
           n == Len(values)
           first == hist.start % n
       IN  /\ {output[t] : t \in Threads}
                 = {values[first + 1], values[((first + 1) % n) + 1]}
           /\ sequential_indices[ConcKey] = (first + 2) % n


(***************************************************************************)
(* SpecParse: parse_value_list applied to every text made of at most       *)
(* MaxParseFrags fragments                                                 *)
(***************************************************************************)

MaxParseFrags == 5

ParseFrags == {<<"(">>, <<")">>, <<"{">>, <<"}">>, <<",">>, <<"|">>, <<"\n">>,
               <<" ">>, <<"a">>}

ParseInit ==
    /\ sequential_indices = EmptyDict
    /\ pc = "call"
    /\ input \in [text : Concats(ParseFrags, MaxParseFrags)]
    /\ output = <<>>
    /\ hist = <<>>

ParseValueList ==
    /\ pc = "call"
    /\ output' = parse_value_list(input.text)
    /\ pc' = "done"
    /\ UNCHANGED <<sequential_indices, input, hist>>

ParseNext == ParseValueList

SpecParse == ParseInit /\ [][ParseNext]_vars

DigitChars == {"0","1","2","3","4","5","6","7","8","9"}

\* s has a substring __PAREN_<n>__ or __CURLY_<n>__
HasPlaceholderToken(s) ==
    \E i \in 1..Len(s) :
       /\ StartsWithAt(s, i, PAREN_TAG) \/ StartsWithAt(s, i, CURLY_TAG)
       /\ \E k \in (i + Len(PAREN_TAG) + 1)..Len(s) :
             /\ \A d \in (i + Len(PAREN_TAG))..(k - 1) : s[d] \in DigitChars
             /\ StartsWithAt(s, k, <<"_", "_">>)

\* C3: for a text with no __PAREN_<n>__ / __CURLY_<n>__ of its own, no value
\* returned by parse_value_list contains such a token, nested groups included.
C3_NoPlaceholderEscapes ==
    (pc = "done" /\ ~HasPlaceholderToken(input.text))
    => \A v \in 1..Len(output) : ~HasPlaceholderToken(output[v])

BracketChars == {"(", ")", "{", "}"}

\* the balanced groups of the text that contain no bracket: (...) and, unless
\* it starts with wildcard_, {...}; each as <<first, last>>
SimpleGroups(text) ==
    {g \in (1..Len(text)) \X (1..Len(text)) :
        /\ g[1] < g[2]
        /\ \/ text[g[1]] = "(" /\ text[g[2]] = ")"
           \/ /\ text[g[1]] = "{" /\ text[g[2]] = "}"
              /\ ~StartsWithAt(text, g[1] + 1, WILDCARD_PREFIX)
        /\ \A k \in (g[1] + 1)..(g[2] - 1) : text[k] \notin BracketChars}

\* the number of places where p occurs in s
Occurrences(s, p) == Cardinality({i \in 1..Len(s) : StartsWithAt(s, i, p)})

RECURSIVE OccurrencesIn(_, _)
OccurrencesIn(values, p) ==
    IF Len(values) = 0 THEN 0
    ELSE Occurrences(values[1], p) + OccurrencesIn(Tail(values), p)

\* C9: a balanced group without nested brackets is atomic: it appears
\* verbatim, delimiters included, inside exactly one returned value.
C9_SimpleGroupAtomic ==
    pc = "done"
    => \A g \in SimpleGroups(input.text) :
          LET group == SubSeq(input.text, g[1], g[2])
          IN  OccurrencesIn(output, group) = Occurrences(input.text, group)

\* the values occur in the text one after the other, from position `from` on
RECURSIVE OccurInOrder(_, _, _)
OccurInOrder(values, text, from) ==
    IF Len(values) = 0 THEN TRUE
    ELSE LET i == FindFrom(text, values[1], from)
         IN  i # 0 /\ OccurInOrder(Tail(values), text, i + Len(values[1]))

\* C10: every returned element is non-empty and has no whitespace at either
\* end, the elements appear in the text in the order returned, and a blank
\* text gives the empty list.
C10_ValueListInvariant ==
    pc = "done"
    => /\ \A v \in 1..Len(output) :
             output[v] # <<>> /\ Strip(output[v]) = output[v]
       /\ OccurInOrder(output, input.text, 1)
       /\ Strip(input.text) = <<>> => output = <<>>


(***************************************************************************)
(* SpecDelim: parse_value_list on texts of delimiters, words and groups    *)
(***************************************************************************)

MaxDelimFrags == 5

DelimFrags == {<<"\n">>, <<"|">>, <<",">>, <<" ">>, <<"a">>, <<"(">>, <<")">>,
               <<"a", ",", "b">>}

DelimInit ==
    /\ sequential_indices = EmptyDict
    /\ pc = "call"
    /\ input \in [text : Concats(DelimFrags, MaxDelimFrags)]
    /\ output = <<>>
    /\ hist = <<>>

DelimNext == ParseValueList

SpecDelim == DelimInit /\ [][DelimNext]_vars

\* the precedence rule, stated once for every segment: a segment is cut at its
\* pipes when it has one, at its commas otherwise; pieces trimmed, blanks dropped
SegmentPieces(segment) ==
    StripNonBlank(Split(segment, IF HasChar(segment, "|") THEN "|" ELSE ","))

RECURSIVE SegmentsPieces(_)
SegmentsPieces(segments) ==
    IF Len(segments) = 0 THEN <<>>
    ELSE SegmentPieces(segments[1]) \o SegmentsPieces(Tail(segments))

\* C8: precedence newline > pipe > comma. The protected text is cut at its
\* newlines; each line (the whole text when there is none) is cut at its
\* unprotected pipes if it has one, else at its unprotected commas, else kept
\* whole; the choice is made line by line.
C8_DelimiterPrecedence ==
    pc = "done"
    => LET p == protect_brackets(input.text)
       IN  output = RestoreValues(SegmentsPieces(Split(p.result, "\n")),
                                  p.replacements)

\* a line with a pipe keeps its comma, the next line is cut at its comma
C8_Witness ==
    /\ pc = "done"
    /\ input.text = <<"a", ",", "b", "|", "\n", "a", ",", "b">>
    /\ output = <<(<<"a", ",", "b">>), (<<"a">>), (<<"b">>)>>


(***************************************************************************)
(* SpecUnbal: parse_value_list on texts with brackets that do not pair up  *)
(***************************************************************************)

MaxUnbalFrags == 4

UnbalFrags == {<<"(">>, <<")">>, <<"{">>, <<"}">>, <<",">>, <<"|">>, <<"\n">>,
               <<"a">>}

UnbalInit ==
    /\ sequential_indices = EmptyDict
    /\ pc = "call"
    /\ input \in [text : Concats(UnbalFrags, MaxUnbalFrags)]
    /\ output = <<>>
    /\ hist = <<>>

UnbalNext == ParseValueList

SpecUnbal == UnbalInit /\ [][UnbalNext]_vars

\* the text has a bracket and none of its brackets can pair up: no ( comes
\* before a ) and no { comes before a }
AllUnmatched(text) ==
    /\ \E i \in 1..Len(text) : text[i] \in BracketChars
    /\ \A i, j \in 1..Len(text) :
          i < j => /\ ~(text[i] = "(" /\ text[j] = ")")
                   /\ ~(text[i] = "{" /\ text[j] = "}")

\* C13: parse_value_list returns a list for every text with unmatched
\* brackets. When no bracket of the text pairs up the result is the text cut
\* by the delimiter rules alone, brackets kept as ordinary characters; in every
\* text each bracket left over by the pairing is still in the returned values.
C13_UnbalancedLiteral ==
    pc = "done"
    => /\ AllUnmatched(input.text)
          => output = SegmentsPieces(Split(input.text, "\n"))
       /\ \A c \in BracketChars :
             OccurrencesIn(output, <<c>>)
                >= Occurrences(protect_brackets(input.text).result, <<c>>)

\* an opening parenthesis that is never closed: the comma after it still cuts
C13_Witness ==
    /\ pc = "done"
    /\ input.text = <<"(", "a", ",", "a">>
    /\ output = <<(<<"(", "a">>), (<<"a">>)>>


(***************************************************************************)
(* SpecLoop: the two while loops of _protect_brackets, one iteration per   *)
(* step; hist is [result, replacements, counter]                           *)
(***************************************************************************)

MaxLoopFrags == 4

\* no text of the bound has as many groups
MaxIterations == 3

LoopFrags == {<<"(">>, <<")">>, <<"{">>, <<"}">>, <<"a">>, <<",">>}

LoopInit ==
    /\ sequential_indices = EmptyDict
    /\ pc = "parens"
    /\ input \in [text : Concats(LoopFrags, MaxLoopFrags)]
    /\ output = <<>>
    /\ hist = [result |-> input.text, replacements |-> <<>>, counter |-> 0]

\* while True: match = re.search(paren_pattern, result) ... (a match)
ParenIteration ==
    /\ pc = "parens"
    /\ paren_pattern(hist.result)[1] # 0
    /\ hist.counter < MaxIterations
    /\ hist' = LoopBody(hist, paren_pattern(hist.result), PAREN_TAG)
    /\ UNCHANGED <<sequential_indices, pc, input, output>>

\* if not match: break
ParenExit ==
    /\ pc = "parens"
    /\ paren_pattern(hist.result)[1] = 0
    /\ pc' = "curlies"
    /\ UNCHANGED <<sequential_indices, input, output, hist>>

CurlyIteration ==
    /\ pc = "curlies"
    /\ curly_pattern(hist.result)[1] # 0
    /\ hist.counter < MaxIterations
    /\ hist' = LoopBody(hist, curly_pattern(hist.result), CURLY_TAG)
    /\ UNCHANGED <<sequential_indices, pc, input, output>>

\* if not match: break; return result, replacements
CurlyExit ==
    /\ pc = "curlies"
    /\ curly_pattern(hist.result)[1] = 0
    /\ pc' = "done"
    /\ output' = hist.result
    /\ UNCHANGED <<sequential_indices, input, hist>>

LoopNext == ParenIteration \/ ParenExit \/ CurlyIteration \/ CurlyExit

SpecLoop == LoopInit /\ [][LoopNext]_vars

\* the call runs to its end without being suspended
SpecLoopFair == SpecLoop /\ WF_vars(LoopNext)

\* C27: both loops of _protect_brackets finish: every call reaches its return.
C27_Terminates == <>(pc = "done")

\* two groups, two iterations, then the return
C27_Witness ==
    /\ pc = "done"
    /\ input.text = <<"(", ")", "{", "}">>
    /\ hist.counter = 2
    /\ output = Placeholder(PAREN_TAG, 0) \o Placeholder(CURLY_TAG, 1)


(***************************************************************************)
(* SpecCsv: the 'list (csv)' output of one node parsed by another          *)
(***************************************************************************)

MaxCsvFrags == 4

CsvFrags == {<<"a">>, <<"b">>, <<",">>, <<"|">>, <<" ">>, <<"(", "a", ",", "b", ")">>}

CsvInit ==
    /\ sequential_indices = EmptyDict
    /\ pc = "call"
    /\ input \in [text : Concats(CsvFrags, MaxCsvFrags)]
    /\ output = <<>>
    /\ hist = <<>>

\* the first node parses the text and returns ", ".join(values); the second
\* node parses that string. hist keeps the list of the first node
CsvReparse ==
    /\ pc = "call"
    /\ hist' = parse_value_list(input.text)
    /\ output' = parse_value_list(Join(parse_value_list(input.text), <<",", " ">>))
    /\ pc' = "done"
    /\ UNCHANGED <<sequential_indices, input>>

CsvNext == CsvReparse

SpecCsv == CsvInit /\ [][CsvNext]_vars

\* C28: parsing the 'list (csv)' output of a node gives the list the node had.
C28_CsvRoundTrip == pc = "done" => output = hist


(***************************************************************************)
(* SpecLiteral: parse_value_list on texts in which the author wrote the    *)
(* text of a protection token                                              *)
(***************************************************************************)

MaxLiteralFrags == 3

LiteralFrags == {Placeholder(PAREN_TAG, 0), <<"(", "a", ")">>,
                 <<"(", "a", ",", "b", ")">>, <<",">>, <<"|">>, <<" ">>, <<"a">>}

LiteralInit ==
    /\ sequential_indices = EmptyDict
    /\ pc = "call"
    /\ input \in [text : Concats(LiteralFrags, MaxLiteralFrags)]
    /\ output = <<>>
    /\ hist = <<>>

LiteralNext == ParseValueList

SpecLiteral == LiteralInit /\ [][LiteralNext]_vars

\* C30: every returned value is a contiguous trimmed piece of the text, also
\* when the text itself holds the characters of a protection token.
C30_LiteralTokenKept ==
    pc = "done"
    => \A v \in 1..Len(output) :
          /\ Contains(input.text, output[v])
          /\ Strip(output[v]) = output[v]


(***************************************************************************)
(* SpecCurly: parse_value_list on texts of whole curly groups, with and    *)
(* without the wildcard_ prefix, between delimiters                        *)
(***************************************************************************)

MaxCurlyFrags == 3

CurlyFrags == {<<"{">> \o WILDCARD_PREFIX \o <<"a", "}">>,
               <<"{">> \o WILDCARD_PREFIX \o <<"a", "|", "b", "}">>,
               <<"{">> \o WILDCARD_PREFIX \o <<"a", ",", " ", "b", "}">>,
               <<"{", "a", "|", "b", "}">>,
               <<",">>, <<"|">>, <<" ">>, <<"a">>}

CurlyInit ==
    /\ sequential_indices = EmptyDict
    /\ pc = "call"
    /\ input \in [text : Concats(CurlyFrags, MaxCurlyFrags)]
    /\ output = <<>>
    /\ hist = <<>>

CurlyNext == ParseValueList

SpecCurly == CurlyInit /\ [][CurlyNext]_vars

\* the balanced curly groups of the text without a bracket inside that are
\* not exactly a token {wildcard_<identifier>}; each as <<first, last>>
NonTokenCurlyGroups(text) ==
    {g \in (1..Len(text)) \X (1..Len(text)) :
        /\ g[1] < g[2]
        /\ text[g[1]] = "{" /\ text[g[2]] = "}"
        /\ \A k \in (g[1] + 1)..(g[2] - 1) : text[k] \notin BracketChars
        /\ WildcardEndAt(text, g[1]) # g[2]}

\* C20: every balanced innermost curly group that is not exactly a token
\* {wildcard_<identifier>}, one that only begins with wildcard_ included, is
\* protected: it appears verbatim, delimiters included, inside one value.
C20_OnlyExactTokenExempt ==
    pc = "done"
    => \A g \in NonTokenCurlyGroups(input.text) :
          LET group == SubSeq(input.text, g[1], g[2])
          IN  OccurrencesIn(output, group) = Occurrences(input.text, group)


(***************************************************************************)
(* SpecReplace: replace_wildcards applied to bounded texts and value maps  *)
(***************************************************************************)

MaxReplaceFrags == 6

ReplaceFrags == {<<"{">> \o WILDCARD_PREFIX, <<"a">>, <<"b">>, <<"}">>}

TokenB == <<"{">> \o WILDCARD_PREFIX \o <<"b", "}">>

\* value maps, in insertion order; keys bare or already prefixed
ReplaceMaps ==
    {<<>>,
     <<(<<(<<"a">>), (<<"x">>)>>)>>,
     <<(<<WILDCARD_PREFIX \o <<"a">>, (<<>>)>>)>>,
     <<(<<(<<"a">>), TokenB>>), (<<(<<"b">>), (<<"y">>)>>)>>,
     <<(<<(<<"b">>), (<<"y">>)>>), (<<(<<"a">>), TokenB>>)>>}

ReplaceInit ==
    /\ sequential_indices = EmptyDict
    /\ pc = "call"
    /\ input \in [text : Concats(ReplaceFrags, MaxReplaceFrags),
                  wildcard_values : ReplaceMaps]
    /\ output = <<>>
    /\ hist = <<>>

ReplaceWildcards ==
    /\ pc = "call"
    /\ output' = replace_wildcards(input.text, input.wildcard_values)
    /\ pc' = "done"
    /\ UNCHANGED <<sequential_indices, input, hist>>

ReplaceNext == ReplaceWildcards

SpecReplace == ReplaceInit /\ [][ReplaceNext]_vars

\* s has a substring that matches {wildcard_<identifier>}
HasWildcardToken(s) == \E i \in 1..Len(s) : WildcardEndAt(s, i) # 0

\* C4: the string returned by replace_wildcards contains no substring that
\* matches {wildcard_<identifier>}, whatever the text and the value map.
C4_NoTokenSurvives == pc = "done" => ~HasWildcardToken(output)

\* the token a key of the value map stands for
KeyToken(name) ==
    IF StartsWith(name, WILDCARD_PREFIX) THEN <<"{">> \o name \o <<"}">>
    ELSE <<"{">> \o WILDCARD_PREFIX \o name \o <<"}">>

\* C19: when the token of a key occurs in the text and the value supplied for
\* that key itself contains a token {wildcard_y}, the value appears unchanged
\* in the output: its token is neither replaced through a later entry of the
\* map nor removed by the blank-fill pass.
C19_InjectedTextKept ==
    pc = "done"
    => \A e \in 1..Len(input.wildcard_values) :
          LET name == input.wildcard_values[e][1]
              value == input.wildcard_values[e][2]
          IN  (HasWildcardToken(value) /\ Contains(input.text, KeyToken(name)))
              => Contains(output, value)

(***************************************************************************)
(* SpecPrefix: replace_wildcards with one key, bare or prefixed, on texts  *)
(* of whole tokens                                                         *)
(***************************************************************************)

MaxPrefixFrags == 3

PrefixFrags == {<<"{">> \o WILDCARD_PREFIX \o <<"a", "}">>,
                <<"{">> \o WILDCARD_PREFIX \o WILDCARD_PREFIX \o <<"a", "}">>,
                <<"{">> \o WILDCARD_PREFIX \o <<"b", "}">>,
                <<" ">>, <<"a">>}

PrefixKeys == {<<"a">>, WILDCARD_PREFIX \o <<"a">>}

PrefixValue == <<"x">>

PrefixInit ==
    /\ sequential_indices = EmptyDict
    /\ pc = "call"
    /\ input \in [text : Concats(PrefixFrags, MaxPrefixFrags),
                  wildcard_values : {<<(<<k, PrefixValue>>)>> : k \in PrefixKeys}]
    /\ output = <<>>
    /\ hist = <<>>

PrefixNext == ReplaceWildcards

SpecPrefix == PrefixInit /\ [][PrefixNext]_vars

\* C24: with one key k and the value x, every occurrence of {wildcard_k} in
\* the text is replaced by x, k taken as a bare identifier even when it
\* begins with wildcard_; and when k has the form wildcard_j every occurrence
\* of {k} is replaced as well. No other x is in the text.
C24_KeyAutoPrefix ==
    pc = "done"
    => LET k == input.wildcard_values[1][1]
           bare == <<"{">> \o WILDCARD_PREFIX \o k \o <<"}">>
           full == <<"{">> \o k \o <<"}">>
       IN  Occurrences(output, PrefixValue)
              = Occurrences(input.text, bare)
                + (IF StartsWith(k, WILDCARD_PREFIX)
                   THEN Occurrences(input.text, full) ELSE 0)


(***************************************************************************)
(* SpecDraft: SinglePromptDrafter.process and DualPromptDrafter.process    *)
(***************************************************************************)

MaxDraftFrags == 2

TokenA == <<"{">> \o WILDCARD_PREFIX \o <<"a", "}">>

DraftFrags == {TokenA, TokenB, <<"c", "a", "r">>, <<",">>, <<" ">>}

DraftPrefixes == {<<>>, <<"b", "i", "g", ",">>}

DraftSuffixes == {<<>>, <<",", " ">> \o TokenA}

\* the dynamic inputs of the node, as the host passes them (**kwargs)
DraftKwargs ==
    {<<>>,
     <<(<<(<<"o", "t", "h", "e", "r">>), (<<"x">>)>>)>>,
     <<(<<WILDCARD_PREFIX \o <<"a">>, (<<"r", "e", "d">>)>>)>>,
     <<(<<WILDCARD_PREFIX \o <<"a">>, (<<>>)>>),
       (<<WILDCARD_PREFIX \o <<"b">>, (<<"b", "l", "u", "e">>)>>)>>}

DraftInit ==
    /\ sequential_indices = EmptyDict
    /\ pc = "call"
    /\ input \in [prompt : Concats(DraftFrags, MaxDraftFrags),
                  negative_prompt : Concats(DraftFrags, 1),
                  prefix : DraftPrefixes, suffix : DraftSuffixes,
                  negative_prefix : DraftPrefixes, negative_suffix : DraftSuffixes,
                  kwargs : DraftKwargs]
    /\ output = <<>>
    /\ hist = <<>>

SingleProcess ==
    /\ pc = "call"
    /\ output' = <<single_process(input.prompt, input.prefix, input.suffix,
                                  input.kwargs)>>
    /\ pc' = "single"
    /\ UNCHANGED <<sequential_indices, input, hist>>

DualProcess ==
    /\ pc = "call"
    /\ output' = dual_process(input.prompt, input.negative_prompt,
                              input.prefix, input.suffix,
                              input.negative_prefix, input.negative_suffix,
                              input.kwargs)
    /\ pc' = "dual"
    /\ UNCHANGED <<sequential_indices, input, hist>>

DraftNext == SingleProcess \/ DualProcess

SpecDraft == DraftInit /\ [][DraftNext]_vars

\* none of the {wildcard_<identifier>} tokens of the prompt is left in out
NoTokenOf(prompt, out) ==
    LET names == extract_wildcard_names(prompt)
    IN  \A k \in 1..Len(names) : ~Contains(out, <<"{">> \o names[k] \o <<"}">>)

\* C5: the prompts returned by SinglePromptDrafter.process and
\* DualPromptDrafter.process contain none of the {wildcard_<identifier>} tokens
\* of their prompt, whatever wildcard inputs are supplied, none included.
C5_MissingValuesBlank ==
    /\ pc = "single" => NoTokenOf(input.prompt, output[1])
    /\ pc = "dual" => /\ NoTokenOf(input.prompt, output[1])
                      /\ NoTokenOf(input.negative_prompt, output[2])

(***************************************************************************)
(* SpecExtract: extract_wildcard_names and get_combined_wildcards applied  *)
(* to bounded texts                                                        *)
(***************************************************************************)

MaxExtractFrags == 4

TokenUpperB == <<"{">> \o WILDCARD_PREFIX \o <<"B", "}">>

ExtractFrags == {TokenA, TokenB, TokenUpperB, <<"{">> \o WILDCARD_PREFIX,
                 <<"a">>, <<"}">>}

ExtractInit ==
    /\ sequential_indices = EmptyDict
    /\ pc = "call"
    /\ input \in [text : Concats(ExtractFrags, MaxExtractFrags),
                  negative_text : Concats(ExtractFrags, 1)]
    /\ output = <<>>
    /\ hist = <<>>

ExtractWildcardNames ==
    /\ pc = "call"
    /\ output' = extract_wildcard_names(input.text)
    /\ pc' = "extracted"
    /\ UNCHANGED <<sequential_indices, input, hist>>

GetCombinedWildcards ==
    /\ pc = "call"
    /\ output' = get_combined_wildcards(input.text, input.negative_text)
    /\ pc' = "combined"
    /\ UNCHANGED <<sequential_indices, input, hist>>

ExtractNext == ExtractWildcardNames \/ GetCombinedWildcards

SpecExtract == ExtractInit /\ [][ExtractNext]_vars

\* the full names wildcard_<identifier> whose token {wildcard_<identifier>}
\* is a substring of the text
TokenNames(text) ==
    {SubSeq(text, i + 1, k - 1) : <<i, k>> \in
        {t \in (1..Len(text)) \X (1..Len(text)) :
            /\ text[t[1]] = "{" /\ text[t[2]] = "}"
            /\ StartsWithAt(text, t[1] + 1, WILDCARD_PREFIX)
            /\ t[2] > t[1] + 1 + Len(WILDCARD_PREFIX)
            /\ \A j \in (t[1] + 1 + Len(WILDCARD_PREFIX))..(t[2] - 1) :
                  text[j] \in IdentChars}}

\* where the token of a name first occurs in the text
FirstTokenAt(text, name) == FindFrom(text, <<"{">> \o name \o <<"}">>, 1)

\* C15: extract_wildcard_names returns exactly the full names whose token
\* occurs in the text, each once, ordered by the first occurrence of the token.
C15_ExtractExact ==
    pc = "extracted"
    => /\ ToSet(output) = TokenNames(input.text)
       /\ \A i, j \in 1..Len(output) :
             i < j => /\ output[i] # output[j]
                      /\ FirstTokenAt(input.text, output[i])
                            < FirstTokenAt(input.text, output[j])

\* b, a, b again: b is reported once, before a
C15_Witness ==
    /\ pc = "extracted"
    /\ input.text = TokenB \o TokenA \o TokenB
    /\ output = <<WILDCARD_PREFIX \o <<"b">>, WILDCARD_PREFIX \o <<"a">>>>

\* C16: get_combined_wildcards returns the names of the first text together
\* with those of the second, each once, in ascending order.
C16_CombinedSorted ==
    pc = "combined"
    => /\ ToSet(output) = TokenNames(input.text) \cup TokenNames(input.negative_text)
       /\ \A i, j \in 1..Len(output) : i < j => StrLess(output[i], output[j])

\* b and a in one text, B and a in the other: B, a, b
C16_Witness ==
    /\ pc = "combined"
    /\ input.text = TokenB \o TokenA
    /\ input.negative_text = TokenUpperB
    /\ output = <<WILDCARD_PREFIX \o <<"B">>, WILDCARD_PREFIX \o <<"a">>,
                  WILDCARD_PREFIX \o <<"b">>>>

(***************************************************************************)
(* SpecFormat: format_as_dynamic_prompts applied to bounded value lists    *)
(***************************************************************************)

MaxFormatLen == 3

FormatValues == {<<"x">>, <<"y">>, <<"r", "e", "d">>, <<"(", "a", "|", "b", ")">>}

\* every list of at most k of the values V
RECURSIVE Lists(_, _)
Lists(V, k) ==
    IF k = 0 THEN {<<>>}
    ELSE LET shorter == Lists(V, k - 1)
         IN  shorter \cup {Append(l, v) : l \in shorter, v \in V}

FormatInit ==
    /\ sequential_indices = EmptyDict
    /\ pc = "call"
    /\ input \in [values : Lists(FormatValues, MaxFormatLen)]
    /\ output = <<>>
    /\ hist = <<>>

FormatAsDynamicPrompts ==
    /\ pc = "call"
    /\ output' = format_as_dynamic_prompts(input.values)
    /\ pc' = "done"
    /\ UNCHANGED <<sequential_indices, input, hist>>

FormatNext == FormatAsDynamicPrompts

SpecFormat == FormatInit /\ [][FormatNext]_vars

\* the number of characters before the k-th value in {v1|v2|...}
RECURSIVE OffsetOf(_, _)
OffsetOf(values, k) ==
    IF k = 1 THEN 1 ELSE OffsetOf(values, k - 1) + Len(values[k - 1]) + 1

\* C17: format_as_dynamic_prompts gives "" for the empty list, the value itself
\* for a list of one, and for n >= 2 values an opening brace, the values in
\* list order each followed by a pipe, the last one by the closing brace.
C17_DynamicFormat ==
    pc = "done"
    => LET values == input.values
           n == Len(values)
       IN  /\ n = 0 => output = <<>>
           /\ n = 1 => output = values[1]
           /\ n >= 2 =>
                 /\ output[1] = "{"
                 /\ Len(output) = OffsetOf(values, n) + Len(values[n]) + 1
                 /\ \A k \in 1..n :
                       LET at == OffsetOf(values, k)
                       IN  /\ SubSeq(output, at + 1, at + Len(values[k])) = values[k]
                           /\ output[at + Len(values[k]) + 1]
                                 = (IF k < n THEN "|" ELSE "}")

\* red and x: {red|x}
C17_Witness ==
    /\ pc = "done"
    /\ input.values = <<(<<"r", "e", "d">>), (<<"x">>)>>
    /\ output = <<"{", "r", "e", "d", "|", "x", "}">>

(***************************************************************************)
(* SpecStore: the wildcard save / load / list / delete routes over a       *)
(* store whose file-system calls may raise; hist is the store              *)
(***************************************************************************)

StoreNames == {<<>>, <<"a">>, <<"b">>, <<"a", ".">>}

StoreTexts == {<<"x", ",", "y">>, <<"z">>}

Faults == {"none", "io"}

StoreInit ==
    /\ sequential_indices = EmptyDict
    /\ pc = "ready"
    /\ input = [op |-> "none", fault |-> "none"]
    /\ output = [success |-> TRUE]
    /\ hist = [exists |-> FALSE, files |-> EmptyDict]

\* POST /promptdrafter/wildcard/save
SaveWildcard(name, raw_text, fault) ==
    /\ pc = "ready"
    /\ fault = "io" => name # <<>>
    /\ input' = [op |-> "save", name |-> name, raw_text |-> raw_text,
                 fault |-> fault]
    /\ IF name = <<>>
       THEN output' = NameRequired /\ hist' = hist
       ELSE LET r == WildcardNodeAPI_save_wildcard(hist, name, raw_text, fault)
            IN  output' = r.response /\ hist' = r.store
    /\ UNCHANGED <<sequential_indices, pc>>

\* GET /promptdrafter/wildcard/load/{name}; the read can only raise when
\* the file is there
LoadWildcard(name, fault) ==
    /\ pc = "ready"
    /\ fault = "io" => /\ name # <<>>
                       /\ hist.exists
                       /\ sanitize_filename(name) \in DOMAIN hist.files
    /\ input' = [op |-> "load", name |-> name, fault |-> fault]
    /\ output' = IF name = <<>> THEN NameRequired
                 ELSE WildcardNodeAPI_load_wildcard(hist, name, fault)
    /\ UNCHANGED <<sequential_indices, pc, hist>>

\* GET /promptdrafter/wildcard/list; the listing can only raise when the
\* directory is there, a file read when there is a file
ListWildcards(fault) ==
    /\ pc = "ready"
    /\ fault = "io" => hist.exists
    /\ fault = "file" => hist.exists /\ DOMAIN hist.files # {}
    /\ input' = [op |-> "list", fault |-> fault]
    /\ output' = WildcardNodeAPI_list_wildcards(hist, fault)
    /\ UNCHANGED <<sequential_indices, pc, hist>>

\* DELETE /promptdrafter/wildcard/delete/{name}; the removal can only raise
\* when the file is there
DeleteWildcard(name, fault) ==
    /\ pc = "ready"
    /\ fault = "io" => /\ name # <<>>
                       /\ hist.exists
                       /\ sanitize_filename(name) \in DOMAIN hist.files
    /\ input' = [op |-> "delete", name |-> name, fault |-> fault]
    /\ IF name = <<>>
       THEN output' = NameRequired /\ hist' = hist
       ELSE LET r == WildcardNodeAPI_delete_wildcard(hist, name, fault)
            IN  output' = r.response /\ hist' = r.store
    /\ UNCHANGED <<sequential_indices, pc>>

StoreNext ==
    \/ \E name \in StoreNames, raw_text \in StoreTexts, fault \in Faults :
          SaveWildcard(name, raw_text, fault)
    \/ \E name \in StoreNames, fault \in Faults : LoadWildcard(name, fault)
    \/ \E fault \in Faults \cup {"file"} : ListWildcards(fault)
    \/ \E name \in StoreNames, fault \in Faults : DeleteWildcard(name, fault)

SpecStore == StoreInit /\ [][StoreNext]_vars

\* C18: when the file-system call of a save, load, list or delete raises, the
\* caller gets a result with success = false and a message, never one with
\* success = true.
C18_FailureReported ==
    (input.op \in {"save", "load", "list", "delete"} /\ input.fault = "io")
    => /\ output.success = FALSE
       /\ "message" \in DOMAIN output

\* C29: a save or a delete under a name n2 that succeeds or fails leaves what
\* load(n1) returns unchanged for every other name n1, so that load(n1) keeps
\* returning what was last saved under n1.
C29_NamesIndependent ==
    [][(input'.op \in {"save", "delete"} /\ input'.name # <<>>)
       => \A n1 \in StoreNames \ {<<>>, input'.name} :
             WildcardNodeAPI_load_wildcard(hist', n1, "none")
                = WildcardNodeAPI_load_wildcard(hist, n1, "none")]_vars

(***************************************************************************)
(* SpecText: clean_prompt (applied once, then again to its own result) and *)
(* combine_prompt                                                          *)
(***************************************************************************)

MaxCleanLen == 4

MaxPartLen == 2

TextFrags == {<<",">>, <<" ">>, <<"a">>, <<"\n">>}

TextInit ==
    /\ sequential_indices = EmptyDict
    /\ pc = "call"
    /\ \/ input \in [op : {"clean"}, text : Concats(TextFrags, MaxCleanLen),
                     prefix : {<<>>}, suffix : {<<>>}]
       \/ input \in [op : {"combine"}, text : Concats(TextFrags, MaxPartLen),
                     prefix : Concats(TextFrags, MaxPartLen),
                     suffix : Concats(TextFrags, MaxPartLen)]
    /\ output = <<>>
    /\ hist = <<>>

CleanPrompt ==
    /\ pc = "call" /\ input.op = "clean"
    /\ output' = clean_prompt(input.text)
    /\ pc' = "cleaned"
    /\ UNCHANGED <<sequential_indices, input, hist>>

\* clean_prompt applied to what clean_prompt returned; hist keeps the first result
CleanAgain ==
    /\ pc = "cleaned"
    /\ hist' = output
    /\ output' = clean_prompt(output)
    /\ pc' = "recleaned"
    /\ UNCHANGED <<sequential_indices, input>>

CombinePrompt ==
    /\ pc = "call" /\ input.op = "combine"
    /\ output' = combine_prompt(input.text, input.prefix, input.suffix)
    /\ pc' = "combined"
    /\ UNCHANGED <<sequential_indices, input, hist>>

TextNext == CleanPrompt \/ CleanAgain \/ CombinePrompt

SpecText == TextInit /\ [][TextNext]_vars

\* C6: clean_prompt is idempotent: clean_prompt(clean_prompt(x)) = clean_prompt(x).
C6_CleanIdempotent == pc = "recleaned" => output = hist

\* the parts that are not empty once their edges are stripped
RECURSIVE NonEmptyStripped(_)
NonEmptyStripped(parts) ==
    IF Len(parts) = 0 THEN <<>>
    ELSE (IF strip_commas(parts[1]) # <<>> THEN <<strip_commas(parts[1])>> ELSE <<>>)
         \o NonEmptyStripped(Tail(parts))

\* C7: combine_prompt joins only the parts that are non-empty after stripping
\* their edges: a part of commas and whitespace contributes nothing, so the
\* result neither starts nor ends with the separator.
C7_OnlyNonEmptyParts ==
    pc = "combined"
    => /\ output = Join(NonEmptyStripped(<<input.prefix, input.text, input.suffix>>),
                        SEPARATOR)
       /\ ~StartsWith(output, SEPARATOR)
       /\ ~EndsWith(output, SEPARATOR)

\* C26: the result of clean_prompt never ends with a comma and has no
\* whitespace at either end.
C26_NoDanglingComma ==
    pc = "cleaned" => /\ ~EndsWith(output, <<",">>)
                      /\ Strip(output) = output

(***************************************************************************)
(* SpecStrip: _strip_commas applied to bounded texts                       *)
(***************************************************************************)

MaxStripLen == 4

StripInit ==
    /\ sequential_indices = EmptyDict
    /\ pc = "call"
    /\ input \in [text : Concats(TextFrags, MaxStripLen)]
    /\ output = <<>>
    /\ hist = <<>>

StripCommas ==
    /\ pc = "call"
    /\ output' = strip_commas(input.text)
    /\ pc' = "stripped"
    /\ UNCHANGED <<sequential_indices, input, hist>>

StripNext == StripCommas

SpecStrip == StripInit /\ [][StripNext]_vars

\* C25: the result of _strip_commas neither starts nor ends with a comma or a
\* whitespace character.
C25_EdgesStripped ==
    (pc = "stripped" /\ output # <<>>)
    => /\ output[1] \notin {","} \cup Whitespace
       /\ output[Len(output)] \notin {","} \cup Whitespace

=============================================================================
